---- MODULE Spec2Model ----
(***************************************************************************)
(* The errata_tool_release reconciler (library/errata_tool_release.py):    *)
(* get_release, the id resolvers, api_data, create_release, edit_release,  *)
(* ensure_release and run_module, run against a remote service that holds  *)
(* the releases matching one name.                                         *)
(*                                                                         *)
(* Python values are modelled as options: None is the empty tuple and a    *)
(* value v is the one-element tuple <<v>>.  A dict is a function whose     *)
(* DOMAIN is its key set, so "key in dict" is "key \in DOMAIN dict".       *)
(* Strings that the code slices or joins (ship_date, blocker_flags) are    *)
(* sequences of one-character strings.                                     *)
(*                                                                         *)
(* Of the 22 module parameters the model keeps the eleven that the code    *)
(* treats differently from one another; the remaining ones (enabled,       *)
(* enable_batching, allow_*, ...) are passed through untouched exactly     *)
(* like "description".                                                     *)
(***************************************************************************)
EXTENDS Integers, Sequences, FiniteSets, TLC

VARIABLES
    releases,     \* remote service: raw JSON of the releases matching the name
    found,        \* the remote service as the current invocation found it
    pc,           \* position of the invocation
    task,         \* module.params of the current invocation (all keys present)
    key_order,    \* the keys of module.params in the dict's order
    check_mode,   \* module.check_mode
    strict,       \* boolean(os.getenv('ANSIBLE_STRICT_USER_CHECK_MODE')), once read
    params,       \* ensure_release's local "params" (None-valued keys dropped)
    release,      \* ensure_release's local "release"
    differences,  \* ensure_release's local "differences"
    write,        \* pending write: method, release id, params handed to api_data
    data,         \* the JSON body built by api_data
    result,       \* ensure_release's local "result"
    err,          \* the exception that ended ensure_release, or "none"
    calls,        \* remote calls issued by the current invocation, in order
    response,     \* the service's response to the write of the invocation
    rejected,     \* response.json() carried by the ValueError of a refused write
    outcome,      \* how run_module ended the invocation, "none" while it runs
    runs,         \* finished invocations
    prev,         \* the last finished invocation: what it returned, if it did
    drifted       \* the release was edited by someone else since then

vars == <<releases, found, pc, task, key_order, check_mode, strict, params, release, differences,
          write, data, result, err, calls, response, rejected, outcome, runs, prev,
          drifted>>

-----------------------------------------------------------------------------
(* Bounds of the exploration *)

\* invocations of the module in one behaviour
MaxRuns == 2
\* parameters in which a task may differ from BaseTask
MaxChanged == 2

-----------------------------------------------------------------------------
(* Python values *)

None == <<>>
Some(v) == <<v>>
Val(o) == o[1]
\* Python truthiness of a value that is a str or None
TruthyStr(o) == o # None /\ Val(o) # ""

Put(d, k, v) == [x \in DOMAIN d \cup {k} |-> IF x = k THEN v ELSE d[x]]
Pop(d, k) == [x \in DOMAIN d \ {k} |-> d[x]]
EmptyDict == [x \in {} |-> None]

\* the keys of a dict built by filtering a dict whose keys come in "order"
RECURSIVE KeysInOrder(_, _)
KeysInOrder(order, keys) ==
    IF order = <<>> THEN <<>>
    ELSE (IF Head(order) \in keys THEN <<Head(order)>> ELSE <<>>)
         \o KeysInOrder(Tail(order), keys)

-----------------------------------------------------------------------------
(* The module's parameters, in the order of module_args *)

FieldOrder ==
    << "product", "name", "description", "type", "product_versions", "active",
       "program_manager", "blocker_flags", "ship_date",
       "supports_component_acl", "state_machine_rule_set" >>

Fields == { FieldOrder[i] : i \in 1..Len(FieldOrder) }

\* "YYYY-MM-DD" and the timestamp the service returns for it
Date1 == << "2","0","2","0","-","0","1","-","3","1" >>
Date2 == << "2","0","2","1","-","0","6","-","1","5" >>
Midnight == << "T","0","0",":","0","0",":","0","0","Z" >>
\* release['ship_date'][:10]
DateLen == 10

FlagA == << "q", "a" >>
FlagB == << "p", "m" >>

ReleaseName == "rhceph-4.0"

\* what the remote service knows: name -> id
Products == [RHCEPH |-> 11]
Users == [alice |-> 21, bob |-> 22]
ProductVersions == [pv1 |-> 31, pv2 |-> 32]
\* WorkflowRulesScraper.enum: label -> id, as text
RuleSets == [Default |-> "1", Unrestricted |-> "2"]
\* int(text)
ToInt(s) == CASE s = "1" -> 1 [] s = "2" -> 2

FieldValues ==
    [ product |-> {None, Some("RHCEPH"), Some("NOPRODUCT")},
      name |-> {Some(ReleaseName)},
      description |-> {Some("Ceph 4.0"), Some("Red Hat Ceph 4.0")},
      type |-> {Some("QuarterlyUpdate"), Some("Zstream")},
      product_versions |-> {None, Some(<<"pv1">>), Some(<<"pv1", "pv2">>),
                            Some(<<"pv2", "pv1">>), Some(<<"pvX">>)},
      active |-> {Some(TRUE), Some(FALSE)},
      program_manager |-> {None, Some("alice"), Some("ghost")},
      blocker_flags |-> {None, Some(<<>>), Some(<<FlagA>>), Some(<<FlagA, FlagB>>)},
      ship_date |-> {None, Some(Date1), Some(Date2)},
      supports_component_acl |-> {Some(FALSE), Some(TRUE)},
      state_machine_rule_set |-> {None, Some(""), Some("Default"),
                                  Some("Unrestricted"), Some("Bogus")} ]

BaseTask ==
    [ product |-> Some("RHCEPH"),
      name |-> Some(ReleaseName),
      description |-> Some("Ceph 4.0"),
      type |-> Some("QuarterlyUpdate"),
      product_versions |-> Some(<<"pv1", "pv2">>),
      active |-> Some(TRUE),
      program_manager |-> None,
      blocker_flags |-> None,
      ship_date |-> None,
      supports_component_acl |-> Some(FALSE),
      state_machine_rule_set |-> None ]

\* the tasks that differ from BaseTask in at most n parameters
RECURSIVE TasksWithin(_)
TasksWithin(n) ==
    IF n = 0 THEN {BaseTask}
    ELSE LET S == TasksWithin(n - 1)
         IN  S \cup { [t EXCEPT ![f] = v] : t \in S, <<f, v>> \in
                        UNION { {f} \X FieldValues[f] : f \in Fields } }

\* module.params: every key present, None where the caller gave nothing
Tasks == TasksWithin(MaxChanged)

\* module.params is a dict: its keys come in the order the caller's arguments
\* gave them, which need not be that of module_args
ReverseOrder == [ i \in 1..Len(FieldOrder) |-> FieldOrder[Len(FieldOrder) + 1 - i] ]

ActiveFirstOrder ==
    << "active", "name", "description", "product", "type", "product_versions",
       "program_manager", "blocker_flags", "ship_date",
       "supports_component_acl", "state_machine_rule_set" >>

OtherOrders == {ReverseOrder, ActiveFirstOrder}

\* the inputs of an invocation, <<values, key order>>: BaseTask in the order
\* of module_args changed in at most MaxChanged respects, of which another
\* order of the keys is one
Inputs ==
    { <<t, FieldOrder>> : t \in Tasks }
    \cup { <<t, o>> : t \in TasksWithin(MaxChanged - 1), o \in OtherOrders }

-----------------------------------------------------------------------------
(* The remote service.  A stored release is kept in the shape the read API  *)
(* returns it: id, attributes, relationships.                               *)

NameOf(table, id) == CHOOSE n \in DOMAIN table : table[n] = id
RuleSetLabel(id) == CHOOSE n \in DOMAIN RuleSets : ToInt(RuleSets[n]) = id

\* ",".join(flags)
RECURSIVE Join(_)
Join(flags) ==
    IF flags = <<>> THEN <<>>
    ELSE IF Len(flags) = 1 THEN Head(flags)
    ELSE Head(flags) \o <<",">> \o Join(Tail(flags))

\* the service's reading of a comma-separated flag string
RECURSIVE SplitFrom(_, _)
SplitFrom(text, word) ==
    IF text = <<>> THEN <<word>>
    ELSE IF Head(text) = "," THEN <<word>> \o SplitFrom(Tail(text), <<>>)
    ELSE SplitFrom(Tail(text), Append(word, Head(text)))

Split(text) == IF text = <<>> THEN <<>> ELSE SplitFrom(text, <<>>)

\* the release a POST builds on: the service's defaults
BlankRelease ==
    [ id |-> 7,
      attributes |->
        [ name |-> None, description |-> None, type |-> None,
          is_active |-> Some(TRUE), ship_date |-> None,
          supports_component_acl |-> Some(FALSE), blocker_flags |-> Some(<<>>) ],
      relationships |->
        [ product |-> None, program_manager |-> None,
          state_machine_rule_set |-> None, product_versions |-> <<>> ] ]

\* The service stores what a write sends.  A field missing from the body
\* keeps the stored value, except product_version_ids: a body without it
\* empties the release's product versions (CLOUDWF-6).
ServerStore(cur, body) ==
    LET r == body["release"]
        Sent(k) == k \in DOMAIN r
        a == cur.attributes
        l == cur.relationships
    IN  [ id |-> cur.id,
          attributes |->
            [ name |-> IF Sent("name") THEN r["name"] ELSE a.name,
              description |->
                IF Sent("description") THEN r["description"] ELSE a.description,
              type |-> IF "type" \in DOMAIN body THEN body["type"] ELSE a.type,
              is_active |-> IF Sent("isactive") THEN r["isactive"] ELSE a.is_active,
              ship_date |->
                IF ~Sent("ship_date") THEN a.ship_date
                ELSE IF r["ship_date"] = None THEN None
                ELSE Some(Val(r["ship_date"]) \o Midnight),
              supports_component_acl |->
                IF Sent("disable_acl") THEN Some(~Val(r["disable_acl"]))
                ELSE a.supports_component_acl,
              blocker_flags |->
                IF Sent("blocker_flags") THEN Some(Split(Val(r["blocker_flags"])))
                ELSE a.blocker_flags ],
          relationships |->
            [ product |->
                IF Sent("product_id")
                THEN Some([short_name |-> NameOf(Products, Val(r["product_id"]))])
                ELSE l.product,
              program_manager |->
                IF Sent("program_manager_id")
                THEN Some([login_name |-> NameOf(Users, Val(r["program_manager_id"]))])
                ELSE l.program_manager,
              state_machine_rule_set |->
                IF ~Sent("state_machine_rule_set_id") THEN l.state_machine_rule_set
                ELSE IF r["state_machine_rule_set_id"] = None THEN None
                ELSE Some([name |-> RuleSetLabel(Val(r["state_machine_rule_set_id"]))]),
              product_versions |->
                IF Sent("product_version_ids")
                THEN [ i \in 1..Len(Val(r["product_version_ids"])) |->
                         [name |-> NameOf(ProductVersions, Val(r["product_version_ids"])[i])] ]
                ELSE <<>> ] ]

\* HTTP statuses: 200 OK, 201 Created, 422 Unprocessable Entity
StatusOK == 200
StatusCreated == 201
StatusUnprocessable == 422

StatusServerError == 500
\* the lowest status that is an error
StatusErrorFrom == 400

\* the statuses the service may answer a write with
Statuses == {StatusOK, StatusCreated, StatusUnprocessable}

\* the statuses the service may answer the name-filtered read with
ReadStatuses == {StatusOK, StatusServerError}

\* the response to the name-filtered read: the status and the JSON body
ReadResponse(stored, status_code) ==
    [ status_code |-> status_code, json |-> [data |-> stored] ]

\* the service carries a write out exactly when it answers a POST with 201
\* and a PUT with 200
ServerAccepts(method, status_code) ==
    status_code = (IF method = "POST" THEN StatusCreated ELSE StatusOK)

\* the response to a write: the status and the JSON body
Respond(method, status_code) ==
    [ status_code |-> status_code,
      json |-> IF ServerAccepts(method, status_code)
               THEN [data |-> "release"]
               ELSE [error |-> "refused", status |-> status_code] ]

\* remote calls, as they appear in the log
ReadCall(name) == <<"GET", "api/v1/releases", name>>
ProductCall(name) == <<"GET", "api/v1/products", name>>
UserCall(login) == <<"GET", "api/v1/user", login>>
VersionCall(name) == <<"GET", "product_versions", name>>
RulesCall == <<"GET", "workflow_rules">>
PostCall(body) == <<"POST", "api/v1/releases", body>>
PutCall(id, body) == <<"PUT", "api/v1/releases", id, body>>

IsWrite(c) == c[1] \in {"POST", "PUT"}

-----------------------------------------------------------------------------
(* get_release *)

\* dict.update
Update(d, e) == [x \in DOMAIN d \cup DOMAIN e |-> IF x \in DOMAIN e THEN e[x] ELSE d[x]]

\* mutant: the timestamp is kept whole
KeepTimestamp(r) == r

\* if release['ship_date'] is not None: ... = release['ship_date'][:10]
TruncateDate(r) ==
    IF r["ship_date"] # None
    THEN Put(r, "ship_date",
             Some(SubSeq(Val(r["ship_date"]), 1,
                         IF Len(Val(r["ship_date"])) < DateLen
                         THEN Len(Val(r["ship_date"])) ELSE DateLen)))
    ELSE r

\* The normalised release built from one element of the read's "data" list.
Normalize(release_data) ==
    LET rel == release_data.relationships
        r1 == Update(Put(EmptyDict, "id", Some(release_data.id)),
                     release_data.attributes)
        r2 == Put(r1, "product",
                  IF rel.product # None THEN Some(Val(rel.product).short_name) ELSE None)
        r3 == Put(r2, "program_manager",
                  IF rel.program_manager # None
                  THEN Some(Val(rel.program_manager).login_name) ELSE None)
        r4 == Put(r3, "state_machine_rule_set",
                  IF rel.state_machine_rule_set # None
                  THEN Some(Val(rel.state_machine_rule_set).name) ELSE None)
        r5 == Put(r4, "product_versions",
                  Some([ i \in 1..Len(rel.product_versions) |->
                           rel.product_versions[i].name ]))
        \* release['active'] = release.pop('is_active')
        r6 == Put(Pop(r5, "is_active"), "active", r5["is_active"])
    IN  TruncateDate(r6)

\* r.raise_for_status(): a 4xx or 5xx status raises HTTPError
RaisesForStatus(r) == r.status_code >= StatusErrorFrom

\* mutant: of several results the first is taken
get_release_first(r) ==
    IF RaisesForStatus(r) THEN [err |-> "HTTPError", release |-> None]
    ELSE LET results == r.json.data
         IN  IF results = <<>> THEN [err |-> "none", release |-> None]
             ELSE [err |-> "none", release |-> Some(Normalize(results[1]))]

\* r: the response to the name-filtered read
get_release(r) ==
    IF RaisesForStatus(r) THEN [err |-> "HTTPError", release |-> None]
    ELSE LET results == r.json.data
         IN  IF results = <<>> THEN [err |-> "none", release |-> None]
             ELSE IF Len(results) > 1 THEN [err |-> "ValueError", release |-> None]
             ELSE [err |-> "none", release |-> Some(Normalize(results[1]))]

-----------------------------------------------------------------------------
(* Id resolvers.  Each returns the calls it issued, and err = "none" with   *)
(* the id, or the exception it raised.                                      *)

get_product_id(name) ==
    IF name \in DOMAIN Products
    THEN [err |-> "none", id |-> Products[name], calls |-> <<ProductCall(name)>>]
    ELSE [err |-> "HTTPError", id |-> 0, calls |-> <<ProductCall(name)>>]

\* common_errata_tool.user_id
user_id(login_name) ==
    IF login_name \in DOMAIN Users
    THEN [err |-> "none", id |-> Users[login_name], calls |-> <<UserCall(login_name)>>]
    ELSE [err |-> "UserNotFoundError", id |-> 0, calls |-> <<UserCall(login_name)>>]

RECURSIVE get_product_version_ids(_)
get_product_version_ids(names) ==
    IF names = <<>> THEN [err |-> "none", ids |-> <<>>, calls |-> <<>>]
    ELSE IF Head(names) \notin DOMAIN ProductVersions
    THEN [err |-> "HTTPError", ids |-> <<>>, calls |-> <<VersionCall(Head(names))>>]
    ELSE LET rest == get_product_version_ids(Tail(names))
         IN  [ err |-> rest.err,
               ids |-> <<ProductVersions[Head(names)]>> \o rest.ids,
               calls |-> <<VersionCall(Head(names))>> \o rest.calls ]

\* int(WorkflowRulesScraper(client).enum[label])
rule_set_id(label) ==
    IF label \in DOMAIN RuleSets
    THEN [err |-> "none", id |-> ToInt(RuleSets[label]), calls |-> <<RulesCall>>]
    ELSE [err |-> "KeyError", id |-> 0, calls |-> <<RulesCall>>]

-----------------------------------------------------------------------------
(* api_data.  The translation is a chain of steps over                      *)
(* [release: the dict being rewritten, calls, err]; a step after an         *)
(* exception does nothing.                                                  *)

\* mutant: the exception of a failed lookup is swallowed
RaiseSwallowed(s, e, cs) == [s EXCEPT !.calls = s.calls \o cs]

Raise(s, e, cs) == [s EXCEPT !.err = e, !.calls = s.calls \o cs]

TrProduct(s) ==
    IF s.err # "none" \/ "product" \notin DOMAIN s.release THEN s
    ELSE LET product_name == s.release["product"]
             popped == Pop(s.release, "product")
         IN  IF product_name = None THEN [s EXCEPT !.release = popped]
             ELSE LET got == get_product_id(Val(product_name))
                  IN  IF got.err # "none" THEN Raise(s, got.err, got.calls)
                      ELSE [ release |-> Put(popped, "product_id", Some(got.id)),
                             calls |-> s.calls \o got.calls, err |-> "none" ]

\* mutant: the resolver's UserNotFoundError is let through as it is
TrProgramManagerUnwrapped(s) ==
    IF s.err # "none" \/ "program_manager" \notin DOMAIN s.release THEN s
    ELSE LET pm_login_name == s.release["program_manager"]
             popped == Pop(s.release, "program_manager")
             got == user_id(IF pm_login_name = None THEN "None" ELSE Val(pm_login_name))
         IN  IF got.err = "UserNotFoundError"
             THEN [s EXCEPT !.err = "UserNotFoundError", !.calls = s.calls \o got.calls]
             ELSE [ release |-> Put(popped, "program_manager_id", Some(got.id)),
                    calls |-> s.calls \o got.calls, err |-> "none" ]

TrProgramManager(s) ==
    IF s.err # "none" \/ "program_manager" \notin DOMAIN s.release THEN s
    ELSE LET pm_login_name == s.release["program_manager"]
             popped == Pop(s.release, "program_manager")
             got == user_id(IF pm_login_name = None THEN "None" ELSE Val(pm_login_name))
         IN  IF got.err = "UserNotFoundError"
             THEN Raise(s, "ProgramManagerNotFoundError", got.calls)
             ELSE [ release |-> Put(popped, "program_manager_id", Some(got.id)),
                    calls |-> s.calls \o got.calls, err |-> "none" ]

TrActive(s) ==
    IF s.err # "none" \/ "active" \notin DOMAIN s.release THEN s
    ELSE [s EXCEPT !.release = Put(Pop(s.release, "active"), "isactive",
                                   s.release["active"])]

\* mutant: the flag is renamed but not negated
TrComponentAclPlain(s) ==
    IF s.err # "none" \/ "supports_component_acl" \notin DOMAIN s.release THEN s
    ELSE [s EXCEPT !.release =
            Put(Pop(s.release, "supports_component_acl"), "disable_acl",
                s.release["supports_component_acl"])]

TrComponentAcl(s) ==
    IF s.err # "none" \/ "supports_component_acl" \notin DOMAIN s.release THEN s
    ELSE [s EXCEPT !.release =
            Put(Pop(s.release, "supports_component_acl"), "disable_acl",
                Some(~Val(s.release["supports_component_acl"])))]

TrProductVersions(s) ==
    IF s.err # "none" \/ "product_versions" \notin DOMAIN s.release THEN s
    ELSE LET product_versions == s.release["product_versions"]
             popped == Pop(s.release, "product_versions")
             got == get_product_version_ids(Val(product_versions))
         IN  IF got.err # "none" THEN Raise(s, got.err, got.calls)
             ELSE [ release |-> Put(popped, "product_version_ids", Some(got.ids)),
                    calls |-> s.calls \o got.calls, err |-> "none" ]

\* mutant: a falsy rule set is dropped from the payload
TrRuleSetOmitFalsy(s) ==
    IF s.err # "none" \/ "state_machine_rule_set" \notin DOMAIN s.release THEN s
    ELSE LET state_machine_rule_set == s.release["state_machine_rule_set"]
             popped == Pop(s.release, "state_machine_rule_set")
         IN  IF TruthyStr(state_machine_rule_set)
             THEN LET got == rule_set_id(Val(state_machine_rule_set))
                  IN  IF got.err # "none" THEN Raise(s, got.err, got.calls)
                      ELSE [ release |-> Put(popped, "state_machine_rule_set_id",
                                             Some(got.id)),
                             calls |-> s.calls \o got.calls, err |-> "none" ]
             ELSE [s EXCEPT !.release = popped]

TrRuleSet(s) ==
    IF s.err # "none" \/ "state_machine_rule_set" \notin DOMAIN s.release THEN s
    ELSE LET state_machine_rule_set == s.release["state_machine_rule_set"]
             popped == Pop(s.release, "state_machine_rule_set")
         IN  IF TruthyStr(state_machine_rule_set)
             THEN LET got == rule_set_id(Val(state_machine_rule_set))
                  IN  IF got.err # "none" THEN Raise(s, got.err, got.calls)
                      ELSE [ release |-> Put(popped, "state_machine_rule_set_id",
                                             Some(got.id)),
                             calls |-> s.calls \o got.calls, err |-> "none" ]
             ELSE [s EXCEPT !.release = Put(popped, "state_machine_rule_set_id", None)]

TrBlockerFlags(s) ==
    IF s.err # "none" \/ "blocker_flags" \notin DOMAIN s.release THEN s
    ELSE [s EXCEPT !.release =
            Put(s.release, "blocker_flags", Some(Join(Val(s.release["blocker_flags"]))))]

\* mutant: the sibling 'type' key is never added
WrapWithoutType(translated, p) == Put(EmptyDict, "release", translated)

\* data = {'release': release}, plus 'type' when params has it
Wrap(translated, p) ==
    IF "type" \in DOMAIN p
    THEN Put(Put(EmptyDict, "release", translated), "type", p["type"])
    ELSE Put(EmptyDict, "release", translated)

api_data(p) ==
    LET s == TrBlockerFlags(TrRuleSet(TrProductVersions(TrComponentAcl(TrActive(
               TrProgramManager(TrProduct(
                 [release |-> p, calls |-> <<>>, err |-> "none"])))))))
    IN  [ err |-> s.err, calls |-> s.calls,
          data |-> IF s.err = "none" THEN Some(Wrap(s.release, p)) ELSE None ]

-----------------------------------------------------------------------------
(* common_errata_tool helpers used by ensure_release *)

\* list(p): the keys of a dict made from module.params, in the dict's order
Keys(p) == KeysInOrder(key_order, DOMAIN p)

\* one (key, current, new) triple per key of the params, in the params'
\* order, whose current value differs
RECURSIVE DiffOver(_, _, _)
DiffOver(keys, settings, p) ==
    IF keys = <<>> THEN <<>>
    ELSE (IF settings[Head(keys)] # p[Head(keys)]
          THEN << <<Head(keys), settings[Head(keys)], p[Head(keys)]>> >>
          ELSE <<>>)
         \o DiffOver(Tail(keys), settings, p)

diff_settings(settings, p) == DiffOver(Keys(p), settings, p)

\* 'changing %s from %s to %s' % (key, current, new)
describe_changes(diffs) ==
    [ i \in 1..Len(diffs) |-> <<"changing", diffs[i][1], "from", diffs[i][2],
                                "to", diffs[i][3]>> ]

\* keys_to_copy of prepare_diff_data that the model carries
KeysToCopy == {"state_machine_rule_set"}

\* task_diff_data: the before/after report; "before" is the empty dict when
\* the release does not exist, and "after" takes over the keys_to_copy that
\* the params leave out
prepare_diff_data(before, after) ==
    LET b == IF before = None THEN EmptyDict ELSE Val(before)
        copied == { k \in KeysToCopy : k \in DOMAIN b /\ k \notin DOMAIN after }
    IN  [ before |-> b,
          after |-> [ k \in DOMAIN after \cup copied |->
                        IF k \in DOMAIN after THEN after[k] ELSE b[k] ] ]

-----------------------------------------------------------------------------
(* ensure_release, in steps *)

\* mutant: None-valued params are kept
KeepNone(p) == p

\* {param: val for param, val in params.items() if val is not None}
StripNone(p) == [ k \in { f \in DOMAIN p : p[f] # None } |-> p[k] ]

\* mutant: the empty string is not turned into None
EnumUnsetForgotten(p) == p

\* if params.get('state_machine_rule_set') == '': ... = None
EnumUnset(p) ==
    IF "state_machine_rule_set" \in DOMAIN p /\ p["state_machine_rule_set"] = Some("")
    THEN [p EXCEPT !["state_machine_rule_set"] = None]
    ELSE p

Prepare(p) == EnumUnset(StripNone(p))

\* mutant: the write is issued in check mode too
AppliesAlways(cm) == TRUE

\* "if not check_mode:" in front of create_release and of edit_release
Applies(cm) == ~cm

FreshResult == [changed |-> FALSE, stdout_lines |-> <<>>, diff |-> None]

\* result on the path of a release that does not exist
CreatedResult(p) ==
    [ changed |-> TRUE,
      stdout_lines |-> << <<"created", Val(p["name"])>> >>,
      diff |-> Some(prepare_diff_data(None, p)) ]

\* mutant: the compensating entry is appended before the changes are
\* described, so a real run reports it
ChangedResultCompensated(res, rel, p, diffs) ==
    LET ds == IF Applies(check_mode) /\ "product_versions" \in DOMAIN p
                 /\ "product_versions" \notin { diffs[i][1] : i \in 1..Len(diffs) }
              THEN Append(diffs, <<"product_versions", p["product_versions"],
                                   p["product_versions"]>>)
              ELSE diffs
    IN  [ changed |-> TRUE,
          stdout_lines |-> res.stdout_lines \o describe_changes(ds),
          diff |-> Some(prepare_diff_data(rel, p)) ]

\* result on the path of a release that differs
ChangedResult(res, rel, p, diffs) ==
    [ changed |-> TRUE,
      stdout_lines |-> res.stdout_lines \o describe_changes(diffs),
      diff |-> Some(prepare_diff_data(rel, p)) ]

DiffKeys(diffs) == { diffs[i][1] : i \in 1..Len(diffs) }

\* mutant: the compensating entry is left out
NoCompensation(diffs, p) == diffs

\* CLOUDWF-6: the differences handed to edit_release
Compensate(diffs, p) ==
    IF "product_versions" \notin DiffKeys(diffs)
    THEN Append(diffs, <<"product_versions", p["product_versions"],
                         p["product_versions"]>>)
    ELSE diffs

\* mutant: every desired parameter is handed to api_data
EditParamsAll(diffs) == params

\* edit_release: params[key] = new for every difference
RECURSIVE EditParams(_)
EditParams(diffs) ==
    IF diffs = <<>> THEN EmptyDict
    ELSE Put(EditParams(SubSeq(diffs, 1, Len(diffs) - 1)),
             diffs[Len(diffs)][1], diffs[Len(diffs)][3])

\* mutant: any of the two success statuses passes for a create
PostAcknowledgedLoosely(resp) == resp.status_code \in {StatusOK, StatusCreated}

\* create_release: "if response.status_code != 201: raise ValueError"
PostAcknowledged(resp) == resp.status_code = StatusCreated

\* edit_release: "if response.status_code != 200: raise ValueError"
PutAcknowledged(resp) == resp.status_code = StatusOK

\* mutant: the update goes to a fixed id
TargetIdFixed(rel) == BlankRelease.id

\* edit_release(client, release['id'], differences)
TargetId(rel) == Val(rel["id"])

-----------------------------------------------------------------------------
(* The remote service before the first invocation *)

StoredBase ==
    [ id |-> 7,
      attributes |->
        [ name |-> Some(ReleaseName), description |-> Some("Ceph 4.0"),
          type |-> Some("QuarterlyUpdate"), is_active |-> Some(TRUE),
          ship_date |-> None, supports_component_acl |-> Some(FALSE),
          blocker_flags |-> Some(<<>>) ],
      relationships |->
        [ product |-> Some([short_name |-> "RHCEPH"]), program_manager |-> None,
          state_machine_rule_set |-> None,
          product_versions |-> << [name |-> "pv1"], [name |-> "pv2"] >> ] ]

StoredOther ==
    [ id |-> 8,
      attributes |->
        [ name |-> Some(ReleaseName), description |-> Some("Red Hat Ceph 4.0"),
          type |-> Some("Zstream"), is_active |-> Some(FALSE),
          ship_date |-> Some(Date1 \o Midnight),
          supports_component_acl |-> Some(TRUE),
          blocker_flags |-> Some(<<FlagA>>) ],
      relationships |->
        [ product |-> None, program_manager |-> Some([login_name |-> "bob"]),
          state_machine_rule_set |-> Some([name |-> "Default"]),
          product_versions |-> << [name |-> "pv1"] >> ] ]

InitialRemotes == { <<>>, <<StoredBase>>, <<StoredOther>>, <<StoredBase, StoredOther>> }

NoPrev == [ runs |-> 0 ]

Init ==
    /\ releases \in InitialRemotes
    /\ found = releases
    /\ pc = "idle"
    /\ task = BaseTask
    /\ key_order = FieldOrder
    /\ check_mode = FALSE
    /\ strict = FALSE
    /\ params = Prepare(BaseTask)
    /\ release = None
    /\ differences = <<>>
    /\ write = None
    /\ data = None
    /\ result = FreshResult
    /\ err = "none"
    /\ calls = <<>>
    /\ response = None
    /\ rejected = None
    /\ outcome = "none"
    /\ runs = 0
    /\ prev = NoPrev
    /\ drifted = FALSE

-----------------------------------------------------------------------------
(* Actions *)

\* run_module up to the call of ensure_release, and ensure_release's first
\* lines.  Next offers any task, with its keys in any of the orders, to the
\* first invocation and the same task again to a later one.
Invoke(t, o, cm) ==
    /\ pc = "idle"
    /\ runs < MaxRuns
    /\ pc' = "read"
    /\ task' = t
    /\ key_order' = o
    /\ check_mode' = cm
    /\ strict' = FALSE
    /\ params' = Prepare(t)
    /\ result' = FreshResult
    /\ release' = None
    /\ differences' = <<>>
    /\ write' = None
    /\ data' = None
    /\ err' = "none"
    /\ calls' = <<>>
    /\ response' = None
    /\ rejected' = None
    /\ found' = releases
    /\ outcome' = "none"
    /\ UNCHANGED <<releases, runs, prev, drifted>>

\* release = get_release(client, name); the service answers the read with
\* status_code
GetRelease(status_code) ==
    /\ pc = "read"
    /\ LET got == get_release(ReadResponse(releases, status_code))
       IN  /\ calls' = Append(calls, ReadCall(Val(params["name"])))
           /\ release' = got.release
           /\ err' = got.err
           /\ pc' = IF got.err # "none" THEN "raised"
                    ELSE IF got.release = None THEN "absent" ELSE "present"
    /\ UNCHANGED <<releases, found, task, key_order, check_mode, strict, params, differences, write,
                   data, result, response, rejected, outcome, runs, prev, drifted>>

\* if not release: ... up to the call of create_release
CreatePath ==
    /\ pc = "absent"
    /\ result' = CreatedResult(params)
    /\ IF ~Applies(check_mode)
       THEN pc' = "returned" /\ write' = write
       ELSE /\ pc' = "translate"
            /\ write' = Some([method |-> "POST", id |-> 0, params |-> params])
    /\ UNCHANGED <<releases, found, task, key_order, check_mode, strict, params, release, differences,
                   data, err, calls, response, rejected, outcome, runs, prev, drifted>>

\* differences = diff_settings(release, params), and nothing differs
NoChange ==
    /\ pc = "present"
    /\ diff_settings(Val(release), params) = <<>>
    /\ pc' = "returned"
    /\ UNCHANGED <<releases, found, task, key_order, check_mode, strict, params, release, differences,
                   write, data, result, err, calls, response, rejected, outcome, runs, prev,
                   drifted>>

\* if differences: ... up to the call of edit_release
UpdatePath ==
    /\ pc = "present"
    /\ LET diffs == diff_settings(Val(release), params)
       IN  /\ diffs # <<>>
           /\ result' = ChangedResult(result, release, params, diffs)
           /\ IF ~Applies(check_mode)
              THEN /\ pc' = "returned"
                   /\ differences' = diffs
                   /\ UNCHANGED <<write, err>>
              ELSE IF /\ "product_versions" \notin DiffKeys(diffs)
                      /\ "product_versions" \notin DOMAIN params
              THEN \* params['product_versions'] raises
                   /\ pc' = "raised"
                   /\ err' = "KeyError"
                   /\ differences' = diffs
                   /\ UNCHANGED write
              ELSE /\ pc' = "translate"
                   /\ differences' = Compensate(diffs, params)
                   /\ write' = Some([ method |-> "PUT", id |-> TargetId(Val(release)),
                                      params |-> EditParams(Compensate(diffs, params)) ])
                   /\ UNCHANGED err
    /\ UNCHANGED <<releases, found, task, key_order, check_mode, strict, params, release, data, calls,
                   response, rejected, outcome, runs, prev, drifted>>

\* data = api_data(client, params), in create_release and in edit_release
Translate ==
    /\ pc = "translate"
    /\ LET t == api_data(Val(write).params)
       IN  /\ calls' = calls \o t.calls
           /\ err' = t.err
           /\ data' = t.data
           /\ pc' = IF t.err = "none" THEN "write" ELSE "raised"
    /\ UNCHANGED <<releases, found, task, key_order, check_mode, strict, params, release, differences,
                   write, result, response, rejected, outcome, runs, prev, drifted>>

\* create_release: client.post and the check of the status; the service
\* answers with status_code
Post(status_code) ==
    /\ pc = "write"
    /\ Val(write).method = "POST"
    /\ calls' = Append(calls, PostCall(Val(data)))
    /\ response' = Some(Respond("POST", status_code))
    /\ releases' = IF ServerAccepts("POST", status_code)
                   THEN <<ServerStore(BlankRelease, Val(data))>>
                   ELSE releases
    /\ IF PostAcknowledged(Respond("POST", status_code))
       THEN /\ pc' = "returned"
            /\ UNCHANGED <<err, rejected>>
       ELSE /\ pc' = "raised"
            /\ err' = "ValueError"
            /\ rejected' = Some(Respond("POST", status_code).json)
    /\ UNCHANGED <<found, task, key_order, check_mode, strict, params, release, differences, write,
                   data, result, outcome, runs, prev, drifted>>

\* edit_release: client.put and the check of the status; the service
\* answers with status_code
PutUpdate(status_code) ==
    /\ pc = "write"
    /\ Val(write).method = "PUT"
    /\ calls' = Append(calls, PutCall(Val(write).id, Val(data)))
    /\ response' = Some(Respond("PUT", status_code))
    /\ releases' = IF ServerAccepts("PUT", status_code)
                   THEN [ i \in 1..Len(releases) |->
                            IF releases[i].id = Val(write).id
                            THEN ServerStore(releases[i], Val(data))
                            ELSE releases[i] ]
                   ELSE releases
    /\ IF PutAcknowledged(Respond("PUT", status_code))
       THEN /\ pc' = "returned"
            /\ UNCHANGED <<err, rejected>>
       ELSE /\ pc' = "raised"
            /\ err' = "ValueError"
            /\ rejected' = Some(Respond("PUT", status_code).json)
    /\ UNCHANGED <<found, task, key_order, check_mode, strict, params, release, differences, write,
                   data, result, outcome, runs, prev, drifted>>

\* run_module after ensure_release: "check_mode and result['changed'] and
\* params['program_manager']", the conditions in front of the read of
\* ANSIBLE_STRICT_USER_CHECK_MODE
StrictCheckReached ==
    /\ pc = "returned"
    /\ check_mode
    /\ result.changed
    /\ TruthyStr(task["program_manager"])

\* ... and the variable, read as st, is set
StrictCheckApplies(st) == StrictCheckReached /\ st

\* how run_module ends
ModuleOutcome(st) ==
    IF pc = "raised"
    THEN IF err = "ProgramManagerNotFoundError" THEN "fail_json" ELSE "exception"
    ELSE IF StrictCheckApplies(st) /\ Val(task["program_manager"]) \notin DOMAIN Users
    THEN "fail_json"
    ELSE "exit_json"

\* run_module from the return of ensure_release to the end of the process;
\* the environment variable is read, as st, only when the conditions in front
\* of it hold
ModuleFinish(st) ==
    /\ pc \in {"returned", "raised"}
    /\ st => StrictCheckReached
    /\ pc' = "idle"
    /\ strict' = st
    /\ outcome' = ModuleOutcome(st)
    /\ calls' = IF StrictCheckApplies(st)
                THEN Append(calls, UserCall(Val(task["program_manager"])))
                ELSE calls
    /\ runs' = runs + 1
    /\ prev' = IF pc = "returned"
               THEN [ runs |-> runs + 1, returned |-> TRUE, task |-> task,
                      check_mode |-> check_mode, result |-> result ]
               ELSE [ runs |-> runs + 1, returned |-> FALSE ]
    /\ drifted' = FALSE
    /\ UNCHANGED <<releases, found, task, key_order, check_mode, params, release,
                   differences, write, data, result, err, response, rejected>>

\* between two invocations somebody else edits the release
RemoteDrift ==
    /\ pc = "idle"
    /\ runs > 0
    /\ runs < MaxRuns
    /\ ~drifted
    /\ Len(releases) = 1
    /\ releases' = << [releases[1] EXCEPT
                         !.attributes.is_active = Some(~Val(@))] >>
    /\ drifted' = TRUE
    /\ UNCHANGED <<found, pc, task, key_order, check_mode, strict, params, release, differences,
                   write, data, result, err, calls, response, rejected, outcome, runs, prev>>

Next ==
    \/ \E in \in (IF runs = 0 THEN Inputs ELSE {<<task, key_order>>}), cm \in BOOLEAN :
          Invoke(in[1], in[2], cm)
    \/ \E status_code \in ReadStatuses : GetRelease(status_code)
    \/ CreatePath
    \/ NoChange
    \/ UpdatePath
    \/ Translate
    \/ \E status_code \in Statuses : Post(status_code)
    \/ \E status_code \in Statuses : PutUpdate(status_code)
    \/ \E st \in BOOLEAN : ModuleFinish(st)
    \/ RemoteDrift

Spec == Init /\ [][Next]_vars

-----------------------------------------------------------------------------
(* Vocabulary of the properties *)

WriteIndexes == { i \in 1..Len(calls) : IsWrite(calls[i]) }
NoWriteIssued == WriteIndexes = {}
\* ensure_release is running or has just ended
InEnsure == pc # "idle"
\* ensure_release has ended: it returned a result or raised
Ended == pc \in {"returned", "raised"}
Decided == pc \in {"translate", "write", "returned", "raised"}
\* the diff of an existing release has been computed
Diffed == release # None /\ Decided
\* the service refused the name-filtered read and get_release raised
ReadRefused == pc = "raised" /\ err = "HTTPError" /\ Len(calls) = 1
\* the read returned no release and the create path has been taken
Absent == found = <<>> /\ Decided /\ ~ReadRefused
OnlyTheRead == calls = <<ReadCall(ReleaseName)>>

IdsOf(names) == [ i \in 1..Len(names) |-> ProductVersions[names[i]] ]

\* the previous invocation was a real run of this task that returned, and
\* nobody touched the release since
AfterSuccessfulApply ==
    /\ InEnsure
    /\ prev.runs >= 1
    /\ prev.returned
    /\ ~prev.check_mode
    /\ prev.task = task
    /\ ~drifted

-----------------------------------------------------------------------------
(* Properties *)

\* C1 as stated: after a real run of a task has returned, a second run of
\* the same task with no remote change in between issues the name-filtered
\* read and nothing else, and returns changed = false.
C1_AsStated ==
    AfterSuccessfulApply =>
        /\ pc \in {"read", "present", "returned"}
        /\ calls \in {<<>>, <<ReadCall(ReleaseName)>>}
        /\ pc = "returned" => (~result.changed /\ OnlyTheRead)

\* C1 (idempotence), amended: after a real run of a task has returned, a
\* second run of the same task with no remote change in between issues the
\* name-filtered read and nothing else and leaves the remote releases as
\* they are; it returns changed = false if the service answers the read, and
\* raises HTTPError if the service refuses it.
C1_Idempotence ==
    AfterSuccessfulApply =>
        /\ pc \in {"read", "present", "returned", "raised"}
        /\ calls \in {<<>>, <<ReadCall(ReleaseName)>>}
        /\ releases = found
        /\ pc = "returned" => (~result.changed /\ OnlyTheRead)
        /\ pc = "raised" => ReadRefused

C1_Witness ==
    /\ AfterSuccessfulApply
    /\ pc = "returned"
    /\ prev.result.changed
    /\ task["ship_date"] # None
    /\ task["blocker_flags"] # None

\* C2 (preview has no side effects): while ensure_release runs in check
\* mode, no step changes the remote releases and no POST or PUT is in the
\* log of calls.
C2_PreviewNoSideEffects ==
    [][(InEnsure /\ check_mode) =>
         (releases' = releases /\ \A i \in 1..Len(calls') : ~IsWrite(calls'[i]))]_vars

C2_Witness ==
    /\ check_mode
    /\ pc = "returned"
    /\ release # None
    /\ result.changed
    /\ releases = found

\* C3 (preview reports the exact change): a real run that returns, made
\* right after a check-mode run of the same task on the same remote state,
\* returns the very result the check-mode run returned.
C3_PreviewReportsExactChange ==
    ( /\ pc = "returned"
      /\ ~check_mode
      /\ prev.runs >= 1
      /\ prev.returned
      /\ prev.check_mode
      /\ prev.task = task
      /\ ~drifted )
    => result = prev.result

C3_Witness ==
    /\ pc = "returned"
    /\ ~check_mode
    /\ prev.runs >= 1
    /\ prev.returned
    /\ prev.check_mode
    /\ ~drifted
    /\ release # None
    /\ result.changed
    /\ ~NoWriteIssued
    /\ "product_versions" \notin { result.stdout_lines[i][2] :
                                      i \in 1..Len(result.stdout_lines) }

\* the keys of p that api_data replaces, and the wire key of each
WireKey ==
    [ product |-> "product_id", program_manager |-> "program_manager_id",
      active |-> "isactive", supports_component_acl |-> "disable_acl",
      product_versions |-> "product_version_ids",
      state_machine_rule_set |-> "state_machine_rule_set_id" ]

\* the lookups that api_data(p) needs
LookupsFor(p) ==
    (IF "product" \in DOMAIN p /\ p["product"] # None
     THEN {ProductCall(Val(p["product"]))} ELSE {})
    \cup (IF "program_manager" \in DOMAIN p /\ p["program_manager"] # None
          THEN {UserCall(Val(p["program_manager"]))} ELSE {})
    \cup (IF "product_versions" \in DOMAIN p
          THEN { VersionCall(Val(p["product_versions"])[i]) :
                   i \in 1..Len(Val(p["product_versions"])) } ELSE {})
    \cup (IF "state_machine_rule_set" \in DOMAIN p /\ TruthyStr(p["state_machine_rule_set"])
          THEN {RulesCall} ELSE {})

\* the body of a write call
BodyOf(c) == IF c[1] = "POST" THEN c[3] ELSE c[4]

\* C4 (no partial apply): at most one write is issued, it is the last call,
\* every lookup the translation needs precedes it and every translated key is
\* in its body; an invocation that ends in a failed translation or lookup has
\* issued no write, and without a write the remote state is as it was found.
C4_NoPartialApply ==
    /\ Cardinality(WriteIndexes) <= 1
    /\ \A w \in WriteIndexes :
         /\ w = Len(calls)
         /\ \A c \in LookupsFor(Val(write).params) :
              \E i \in 1..(w - 1) : calls[i] = c
         /\ \A k \in DOMAIN Val(write).params \cap DOMAIN WireKey :
              /\ k \notin DOMAIN BodyOf(calls[w])["release"]
              /\ (k = "product" /\ Val(write).params[k] = None)
                 \/ WireKey[k] \in DOMAIN BodyOf(calls[w])["release"]
    /\ (pc = "raised" /\ err \in {"HTTPError", "ProgramManagerNotFoundError", "KeyError"})
         => NoWriteIssued
    /\ (InEnsure /\ NoWriteIssued) => releases = found

C4_Witness ==
    /\ pc = "raised"
    /\ err = "HTTPError"
    /\ found # <<>>
    /\ Len(calls) >= 3
    /\ NoWriteIssued
    /\ releases = found

\* C5 (version-list compensation): the body of every PUT holds
\* product_version_ids, the ids of the desired product_versions in their
\* order, also when the desired list equals the current one.
C5_VersionsInEveryUpdate ==
    \A i \in 1..Len(calls) :
        calls[i][1] = "PUT" =>
            /\ "product_versions" \in DOMAIN params
            /\ "product_version_ids" \in DOMAIN calls[i][4]["release"]
            /\ calls[i][4]["release"]["product_version_ids"]
                 = Some(IdsOf(Val(params["product_versions"])))

C5_Witness ==
    /\ Len(calls) >= 1
    /\ calls[Len(calls)][1] = "PUT"
    /\ release # None
    /\ Val(release)["product_versions"] = params["product_versions"]
    /\ Len(Val(params["product_versions"])) = 2


RuleSetDiffs ==
    { i \in 1..Len(differences) : differences[i][1] = "state_machine_rule_set" }

\* C6 as stated: on an existing release, a desired rule set of '' produces a
\* Difference that sets the field to null, and an omitted rule set produces
\* no Difference for the field.
C6_AsStated ==
    Diffed =>
        /\ task["state_machine_rule_set"] = Some("") =>
             \E i \in RuleSetDiffs : differences[i][3] = None
        /\ task["state_machine_rule_set"] = None => RuleSetDiffs = {}

\* C6 (enum unset convention), amended: on an existing release a desired rule
\* set of '' produces the Difference (state_machine_rule_set, current, null)
\* when the current rule set is not null and no Difference for the field when
\* it is null already; an omitted (null) rule set produces no Difference for
\* the field whatever the current value.
C6_EnumUnset ==
    Diffed =>
        /\ task["state_machine_rule_set"] = Some("") =>
             IF Val(release)["state_machine_rule_set"] # None
             THEN /\ Cardinality(RuleSetDiffs) = 1
                  /\ \A i \in RuleSetDiffs :
                       /\ differences[i][2] = Val(release)["state_machine_rule_set"]
                       /\ differences[i][3] = None
             ELSE RuleSetDiffs = {}
        /\ task["state_machine_rule_set"] = None => RuleSetDiffs = {}

C6_Witness ==
    /\ Diffed
    /\ task["state_machine_rule_set"] = Some("")
    /\ Val(release)["state_machine_rule_set"] = Some("Default")
    /\ RuleSetDiffs # {}

NullKeys(t) == { k \in DOMAIN t : t[k] = None }

\* the differences ensure_release holds for desired params p: the computed
\* ones, with the compensating entry once edit_release is reached
HeldDifferences(p) ==
    LET d == diff_settings(Val(release), p)
    IN  IF write # None THEN Compensate(d, p) ELSE d

\* C7 (absent-field no-op): the differences, the changed flag, the
\* stdout_lines and the write body of the invocation are those of the same
\* task with any one of its null-valued parameters left out altogether.
C7_NullFieldNoOp ==
    \A k \in NullKeys(task) :
        LET p2 == Prepare(Pop(task, k))
        IN  /\ Diffed =>
                LET d2 == diff_settings(Val(release), p2)
                IN  /\ result.changed = (d2 # <<>>)
                    /\ result.stdout_lines = describe_changes(d2)
                    /\ differences = IF d2 = <<>> THEN <<>> ELSE HeldDifferences(p2)
                    /\ data # None => data = api_data(EditParams(Compensate(d2, p2))).data
            /\ Absent =>
                /\ result = CreatedResult(p2)
                /\ data # None => data = api_data(p2).data

C7_Witness ==
    /\ Diffed
    /\ pc = "returned"
    /\ ~NoWriteIssued
    /\ task["program_manager"] = None
    /\ Val(release)["program_manager"] # None
    /\ task["state_machine_rule_set"] = None
    /\ Val(release)["state_machine_rule_set"] # None

\* C8 as stated: the diff of an existing release is empty, and changed is
\* false, exactly when every non-null parameter of the task equals the
\* current value.
C8_AsStated ==
    Diffed =>
        ( ~result.changed
          <=> \A k \in Fields : task[k] # None => task[k] = Val(release)[k] )

\* the desired value the diff compares: '' for the rule set stands for null
Desired(k) ==
    IF k = "state_machine_rule_set" /\ task[k] = Some("") THEN None ELSE task[k]

\* C8 (diff symmetry), amended: the diff of an existing release is empty, and
\* changed is false, exactly when every non-null parameter of the task, with
\* a rule set of '' read as null, equals the current value of the normalised
\* release; lists are compared as ordered sequences.
C8_DiffSymmetry ==
    Diffed =>
        ( (~result.changed /\ differences = <<>>)
          <=> \A k \in Fields : task[k] # None => Desired(k) = Val(release)[k] )

C8_Witness ==
    /\ Diffed
    /\ check_mode
    /\ task["product_versions"] = Some(<<"pv2", "pv1">>)
    /\ Val(release)["product_versions"] = Some(<<"pv1", "pv2">>)
    /\ result.changed
    /\ Len(differences) = 1
    /\ differences[1][1] = "product_versions"

\* what the translation of parameter k with non-null value v must put in
\* the body: the wire key and the wire value
ExpectedWire(k, v) ==
    CASE k = "product" -> <<"product_id", Some(Products[Val(v)])>>
      [] k = "program_manager" -> <<"program_manager_id", Some(Users[Val(v)])>>
      [] k = "active" -> <<"isactive", v>>
      [] k = "supports_component_acl" -> <<"disable_acl", Some(Val(v) = FALSE)>>
      [] k = "product_versions" -> <<"product_version_ids", Some(IdsOf(Val(v)))>>
      [] k = "state_machine_rule_set" ->
           <<"state_machine_rule_set_id",
             IF TruthyStr(v) THEN Some(ToInt(RuleSets[Val(v)])) ELSE None>>
      [] k = "blocker_flags" -> <<k, Some(Join(Val(v)))>>
      [] OTHER -> <<k, v>>

\* the body carries exactly the translation of the non-null parameters of t
CarriesAll(body, t) ==
    LET given == { k \in Fields : t[k] # None }
    IN  /\ DOMAIN body = {"release", "type"}
        /\ body["type"] = t["type"]
        /\ DOMAIN body["release"] = { ExpectedWire(k, t[k])[1] : k \in given }
        /\ \A k \in given :
             body["release"][ExpectedWire(k, t[k])[1]] = ExpectedWire(k, t[k])[2]

\* every reference of the non-null parameters of t exists on the service
Resolves(t) ==
    /\ t["product"] # None => Val(t["product"]) \in DOMAIN Products
    /\ t["program_manager"] # None => Val(t["program_manager"]) \in DOMAIN Users
    /\ t["product_versions"] # None =>
         \A i \in 1..Len(Val(t["product_versions"])) :
             Val(t["product_versions"])[i] \in DOMAIN ProductVersions
    /\ TruthyStr(t["state_machine_rule_set"]) =>
         Val(t["state_machine_rule_set"]) \in DOMAIN RuleSets

CreatedLines == << <<"created", ReleaseName>> >>

\* C9 as stated: whenever the read finds no release, ensure_release returns
\* changed = true with stdout_lines ['created <name>'], and a real run issues
\* exactly one POST carrying the translation of all non-null parameters and
\* no PUT.
C9_AsStated ==
    (Absent /\ Ended) =>
        /\ pc = "returned"
        /\ result.changed
        /\ result.stdout_lines = CreatedLines
        /\ ~check_mode =>
             /\ Cardinality(WriteIndexes) = 1
             /\ \A w \in WriteIndexes :
                  calls[w][1] = "POST" /\ CarriesAll(calls[w][3], task)

\* C9 (create path), amended: when the read finds no release, a check-mode
\* run returns changed = true with stdout_lines ['created <name>'] and issues
\* no write; a real run whose references all resolve issues exactly one POST,
\* carrying the translation of all non-null parameters, and no PUT, and
\* returns that same result if the POST is acknowledged (it raises if not);
\* a real run with a reference that does not resolve raises before any write.
C9_CreatePath ==
    (Absent /\ Ended) =>
        /\ \A i \in 1..Len(calls) : calls[i][1] # "PUT"
        /\ pc = "returned" => (result.changed /\ result.stdout_lines = CreatedLines)
        /\ check_mode => (pc = "returned" /\ OnlyTheRead)
        /\ (~check_mode /\ Resolves(task)) =>
             /\ Cardinality(WriteIndexes) = 1
             /\ \A w \in WriteIndexes :
                  /\ w = Len(calls)
                  /\ calls[w][1] = "POST"
                  /\ CarriesAll(calls[w][3], task)
             /\ pc = "raised" <=> err = "ValueError"
        /\ (~check_mode /\ ~Resolves(task)) => (pc = "raised" /\ NoWriteIssued)

C9_Witness ==
    /\ Absent
    /\ pc = "returned"
    /\ ~check_mode
    /\ task["program_manager"] # None
    /\ task["supports_component_acl"] = Some(TRUE)
    /\ releases # <<>>

GhostManager ==
    /\ task["program_manager"] # None
    /\ Val(task["program_manager"]) \notin DOMAIN Users

\* C10 as stated: whenever the desired program_manager does not exist on the
\* service, the invocation fails with ProgramManagerNotFound and issues no
\* write.
C10_AsStated ==
    (Ended /\ GhostManager) =>
        /\ pc = "raised"
        /\ err = "ProgramManagerNotFoundError"
        /\ NoWriteIssued

\* a step before the lookup of the program manager fails
FailsEarlier ==
    \/ ReadRefused
    \/ Len(found) > 1
    \/ found # <<>> /\ task["product_versions"] = None
    \/ /\ task["product"] # None
       /\ Val(task["product"]) \notin DOMAIN Products
       /\ (found = <<>> \/ Val(release)["product"] # task["product"])

\* C10 (program manager not found), amended: an invocation whose desired
\* program_manager does not exist on the service never issues a write.  A
\* real run fails with ProgramManagerNotFoundError, which run_module reports
\* with fail_json, unless an earlier step fails first (read refused,
\* ambiguous name, product that does not resolve, product_versions missing on
\* the update path).  A check-mode run whose read returns at most one release
\* looks nothing up in ensure_release and returns changed = true; run_module
\* fails it only under the strict user check.
C10_ManagerNotFound ==
    (Ended /\ GhostManager) =>
        /\ NoWriteIssued
        /\ (~check_mode /\ ~FailsEarlier) =>
             /\ pc = "raised"
             /\ err = "ProgramManagerNotFoundError"
             /\ calls[Len(calls)] = UserCall(Val(task["program_manager"]))
             /\ \A st \in BOOLEAN : ModuleOutcome(st) = "fail_json"
        /\ (check_mode /\ ~ReadRefused /\ Len(found) <= 1) =>
             /\ pc = "returned"
             /\ result.changed
             /\ OnlyTheRead
             /\ \A st \in BOOLEAN : ModuleOutcome(st) = "fail_json" <=> st

C10_Witness ==
    /\ GhostManager
    /\ pc = "raised"
    /\ err = "ProgramManagerNotFoundError"
    /\ found # <<>>
    /\ NoWriteIssued

\* the differences diff_settings computes for the release that was read
RealDifferences == diff_settings(Val(release), params)

\* Scenario C: the release exists and only "active" differs, true -> false
ScenarioC ==
    /\ task = [BaseTask EXCEPT !["active"] = Some(FALSE)]
    /\ found = <<StoredBase>>

\* C11 (minimal targeted update): the "release" mapping of every PUT body
\* holds the wire form of exactly the parameters that differ from the release
\* read, plus product_version_ids, and no key of a parameter that matches;
\* when only "active" differs, true -> false, the one Difference is
\* (active, true, false) and the body holds isactive = false and
\* product_version_ids and nothing else.
C11_MinimalUpdate ==
    /\ \A i \in 1..Len(calls) :
         calls[i][1] = "PUT" =>
            LET body == calls[i][4]["release"]
                sent == DiffKeys(RealDifferences) \cup {"product_versions"}
            IN  /\ RealDifferences # <<>>
                /\ sent \subseteq DOMAIN params
                /\ DOMAIN body = { ExpectedWire(k, params[k])[1] : k \in sent }
                /\ \A k \in sent :
                     body[ExpectedWire(k, params[k])[1]] = ExpectedWire(k, params[k])[2]
                /\ \A k \in DOMAIN params \ sent :
                     /\ params[k] = Val(release)[k]
                     /\ k \notin DOMAIN body
                     /\ k \in DOMAIN WireKey => WireKey[k] \notin DOMAIN body
    /\ (ScenarioC /\ Diffed) =>
         /\ RealDifferences = << <<"active", Some(TRUE), Some(FALSE)>> >>
         /\ data # None =>
              Val(data)["release"] =
                Put(Put(EmptyDict, "isactive", Some(FALSE)),
                    "product_version_ids", Some(<<31, 32>>))

C11_Witness ==
    /\ ScenarioC
    /\ pc = "returned"
    /\ Len(calls) >= 1
    /\ calls[Len(calls)][1] = "PUT"
    /\ DOMAIN calls[Len(calls)][4]["release"] = {"isactive", "product_version_ids"}

\* the last remote call of the invocation
LastCall == calls[Len(calls)]

\* the invocation has issued a write and the service has answered it
Answered == response # None

\* C12 (write acknowledgement): ensure_release returns after a POST only when
\* the response status is 201 and after a PUT only when it is 200; on any
\* other status it raises a ValueError carrying the response's JSON body and
\* returns nothing; either way the write is the only write and the last
\* remote call of the invocation, and a refused write leaves the remote
\* releases as they were found.
C12_WriteAcknowledgement ==
    (InEnsure /\ Answered) =>
        /\ Cardinality(WriteIndexes) = 1
        /\ IsWrite(LastCall)
        /\ pc \in {"returned", "raised"}
        /\ pc = "returned" <=>
             Val(response).status_code = (IF LastCall[1] = "POST" THEN 201 ELSE 200)
        /\ pc = "returned" => (err = "none" /\ rejected = None /\ result.changed)
        /\ pc = "raised" =>
             /\ err = "ValueError"
             /\ rejected = Some(Val(response).json)
             /\ \A st \in BOOLEAN : ModuleOutcome(st) = "exception"
             /\ releases = found

C12_Witness ==
    /\ pc = "raised"
    /\ Answered
    /\ LastCall[1] = "POST"
    /\ Val(response).status_code = 200
    /\ rejected = Some(Val(response).json)

\* the name-filtered read returned more than one release
Ambiguous == Len(found) > 1 /\ ~ReadRefused

\* C13 (ambiguous name is fatal): once the read has returned more than one
\* release, in check mode and in a real run alike, ensure_release has raised
\* ValueError with the read as its only remote call: no release is kept, no
\* diff is computed, no result is built and nothing is translated or written,
\* and the remote releases are untouched.
C13_AmbiguousNameFatal ==
    (InEnsure /\ pc # "read" /\ Ambiguous) =>
        /\ pc = "raised"
        /\ err = "ValueError"
        /\ OnlyTheRead
        /\ release = None
        /\ differences = <<>>
        /\ result = FreshResult
        /\ write = None /\ data = None /\ response = None
        /\ \A st \in BOOLEAN : ModuleOutcome(st) = "exception"
        /\ releases = found

C13_Witness ==
    /\ Ambiguous
    /\ pc = "raised"
    /\ check_mode
    /\ prev.runs >= 1
    /\ ~prev.returned

\* the states of the reconciler, read off the position of the invocation
ReconcilerState ==
    CASE pc = "idle" -> "IDLE"
      [] pc = "read" -> "READING"
      [] pc = "absent" -> "ABSENT"
      [] pc = "present" ->
           IF RealDifferences = <<>> THEN "PRESENT_NO_DIFF" ELSE "PRESENT_WITH_DIFF"
      [] pc \in {"translate", "write"} ->
           IF Val(write).method = "POST" THEN "CREATING" ELSE "UPDATING"
      [] pc = "returned" -> "DONE"
      [] pc = "raised" -> "ERROR"

\* the moves of the reconciler; from ABSENT and PRESENT_WITH_DIFF a
\* check-mode run goes to DONE at once
ReconcilerMoves ==
    { <<"IDLE", "READING">>,
      <<"READING", "ABSENT">>, <<"READING", "PRESENT_NO_DIFF">>,
      <<"READING", "PRESENT_WITH_DIFF">>, <<"READING", "ERROR">>,
      <<"ABSENT", "CREATING">>, <<"ABSENT", "DONE">>,
      <<"CREATING", "CREATING">>, <<"CREATING", "DONE">>, <<"CREATING", "ERROR">>,
      <<"PRESENT_NO_DIFF", "DONE">>,
      <<"PRESENT_WITH_DIFF", "UPDATING">>, <<"PRESENT_WITH_DIFF", "DONE">>,
      <<"PRESENT_WITH_DIFF", "ERROR">>,
      <<"UPDATING", "UPDATING">>, <<"UPDATING", "DONE">>, <<"UPDATING", "ERROR">>,
      <<"DONE", "IDLE">>, <<"ERROR", "IDLE">>, <<"IDLE", "IDLE">> }

\* what the log of remote calls may hold in each state
ReconcilerCalls ==
    /\ InEnsure => (calls = <<>> <=> pc = "read")
    /\ calls # <<>> => calls[1] = ReadCall(ReleaseName)
    /\ \A i \in 2..Len(calls) : calls[i] # ReadCall(ReleaseName)
    /\ Cardinality(WriteIndexes) <= 1
    /\ \A w \in WriteIndexes :
         /\ w = Len(calls)
         /\ calls[w][1] = "POST" => found = <<>>
         /\ calls[w][1] = "PUT" =>
              /\ Len(found) = 1
              /\ RealDifferences # <<>>
              /\ calls[w][3] = found[1].id
    /\ (pc = "returned" /\ ~check_mode) =>
         IF found = <<>> THEN LastCall[1] = "POST"
         ELSE IF RealDifferences # <<>> THEN LastCall[1] = "PUT"
         ELSE OnlyTheRead
    /\ (pc = "returned" /\ check_mode) => OnlyTheRead

\* C14 (reconciler state machine): the name-filtered read is the first remote
\* call of every invocation and is issued once; the invocation then follows
\* ABSENT -> CREATING -> DONE, PRESENT_NO_DIFF -> DONE or PRESENT_WITH_DIFF ->
\* UPDATING -> DONE, or ends in ERROR; a POST is issued only when the read
\* found no release, a PUT only when it found one release whose diff is not
\* empty, and to that release's id; there is at most one write, and it is the
\* last call.
C14_StateMachine ==
    /\ []ReconcilerCalls
    /\ [][(<<ReconcilerState, ReconcilerState'>> \in ReconcilerMoves)]_vars

C14_Witness ==
    /\ pc = "returned"
    /\ ~check_mode
    /\ found = <<StoredOther>>
    /\ LastCall[1] = "PUT"
    /\ LastCall[3] = StoredOther.id

\* field k of a stored release as a full read shows it (the ship date with
\* its time part)
RemoteField(r, k) ==
    IF k = "ship_date" THEN r.attributes.ship_date ELSE Normalize(r)[k]

\* an update has been carried out by the service
Updated ==
    /\ pc = "returned"
    /\ Answered
    /\ LastCall[1] = "PUT"

\* the parameters the task leaves alone: omitted, or equal to the release read
LeftAlone == { k \in Fields : task[k] = None \/ Desired(k) = Val(release)[k] }

\* C15 (frame of an update): after a successful update every remote field
\* whose parameter is omitted (null) or equals the value read is as it was
\* found; in particular, on a service that empties the product versions when
\* product_version_ids is missing from the body, an update that changes other
\* fields leaves the release's product versions as they were.
C15_UpdateFrame ==
    Updated =>
        /\ Len(releases) = 1 /\ Len(found) = 1
        /\ releases[1].id = found[1].id
        /\ \A k \in LeftAlone : RemoteField(releases[1], k) = RemoteField(found[1], k)
        /\ "product_versions" \notin DiffKeys(RealDifferences) =>
             releases[1].relationships.product_versions
               = found[1].relationships.product_versions

C15_Witness ==
    /\ Updated
    /\ found = <<StoredOther>>
    /\ releases # found
    /\ "product_versions" \notin DiffKeys(RealDifferences)
    /\ task["program_manager"] = None
    /\ task["ship_date"] = Some(Date1)
    /\ releases[1].relationships.program_manager # None

RuleSetKey == "state_machine_rule_set"
RuleSetIdKey == "state_machine_rule_set_id"

\* the translator's input of the invocation with the rule set given as v
WithRuleSet(v) == Put(Val(write).params, RuleSetKey, v)
\* ... and with the rule set left out
WithoutRuleSet == Pop(Val(write).params, RuleSetKey)

\* the "release" mapping r relates to the rule set of the translator's
\* input p in the three-valued way
ThreeValuedPair(p, r) ==
    /\ RuleSetKey \notin DOMAIN r
    /\ IF RuleSetKey \notin DOMAIN p THEN RuleSetIdKey \notin DOMAIN r
       ELSE /\ RuleSetIdKey \in DOMAIN r
            /\ r[RuleSetIdKey] =
                 IF p[RuleSetKey] \in {None, Some("")} THEN None
                 ELSE Some(ToInt(RuleSets[Val(p[RuleSetKey])]))

\* ... for the mapping api_data builds from p
ThreeValued(p) ==
    LET t == api_data(p)
    IN  t.err = "none" => ThreeValuedPair(p, Val(t.data)["release"])

\* C16 (rule-set translation is three-valued): for a rule set that is
\* present in its input and falsy ('' or null) api_data puts
\* state_machine_rule_set_id = null in the payload, for a present label the
\* id resolved for it, and for an absent rule set neither
\* state_machine_rule_set nor the id key; and when the task asks for '' every
\* POST carries state_machine_rule_set_id = null, every PUT carries it as
\* null when the release read has a rule set, and the release stored by an
\* acknowledged write has none.
C16_RuleSetThreeValued ==
    /\ pc = "translate" =>
         /\ ThreeValued(WithoutRuleSet)
         /\ \A v \in {None, Some(""), Some("Default"), Some("Unrestricted")} :
              ThreeValued(WithRuleSet(v))
    /\ data # None => ThreeValuedPair(Val(write).params, Val(data)["release"])
    /\ task[RuleSetKey] = Some("") =>
         /\ \A w \in WriteIndexes :
              LET r == BodyOf(calls[w])["release"]
              IN  /\ RuleSetKey \notin DOMAIN r
                  /\ RuleSetIdKey \in DOMAIN r => r[RuleSetIdKey] = None
                  /\ calls[w][1] = "POST" => RuleSetIdKey \in DOMAIN r
                  /\ (calls[w][1] = "PUT" /\ Val(release)[RuleSetKey] # None)
                       => RuleSetIdKey \in DOMAIN r
         /\ (pc = "returned" /\ Answered) =>
              releases[1].relationships.state_machine_rule_set = None

C16_Witness ==
    /\ task[RuleSetKey] = Some("")
    /\ Updated
    /\ found = <<StoredOther>>
    /\ RuleSetIdKey \in DOMAIN LastCall[4]["release"]
    /\ LastCall[4]["release"][RuleSetIdKey] = None
    /\ releases[1].relationships.state_machine_rule_set = None

\* the key of api_data's output under which parameter k of its input travels
Travels(k) == IF k \in DOMAIN WireKey THEN WireKey[k] ELSE k

\* body has the shape api_data gives the translation of input p
ShapedFor(body, p) ==
    /\ DOMAIN body = {"release"} \cup (IF "type" \in DOMAIN p THEN {"type"} ELSE {})
    /\ "type" \in DOMAIN p => body["type"] = p["type"]
    /\ DOMAIN body["release"] =
         { Travels(k) : k \in { f \in DOMAIN p : ~(f = "product" /\ p[f] = None) } }

\* C17 (payload shape): the payload api_data builds, and the body of every
\* POST and PUT, holds the translated fields under "release" and holds a
\* top-level "type" exactly when "type" is a key of api_data's input, with
\* the input's value; creates and updates have this same shape.
C17_PayloadShape ==
    /\ data # None => ShapedFor(Val(data), Val(write).params)
    /\ \A w \in WriteIndexes :
         /\ BodyOf(calls[w]) = Val(data)
         /\ ShapedFor(BodyOf(calls[w]), Val(write).params)
         /\ calls[w][1] = "POST" => Val(write).params = params
         /\ calls[w][1] = "PUT" =>
              ("type" \in DOMAIN BodyOf(calls[w])
                 <=> "type" \in DiffKeys(RealDifferences))

C17_Witness ==
    /\ Updated
    /\ found = <<StoredBase>>
    /\ DOMAIN LastCall[4] = {"release", "type"}
    /\ LastCall[4]["type"] = Some("Zstream")
    /\ releases[1].attributes.type = Some("Zstream")

\* the parameter each line of stdout_lines is about
ReportedKeys == [ i \in 1..Len(result.stdout_lines) |-> result.stdout_lines[i][2] ]

\* the parameter of each Difference, in the order of the diff
DifferingKeys == [ i \in 1..Len(RealDifferences) |-> RealDifferences[i][1] ]

\* C18 (the compensating entry is never reported): on the update path
\* stdout_lines holds one change description per Difference that
\* diff_settings computed, in the order of the diff, so it has a line for
\* product_versions only when product_versions differs; the entry appended
\* for the update is in the differences handed to edit_release and in the
\* body of the PUT, not in stdout_lines.
C18_CompensationNotReported ==
    (Diffed /\ RealDifferences # <<>>) =>
        /\ result.stdout_lines = describe_changes(RealDifferences)
        /\ ReportedKeys = DifferingKeys
        /\ (\E i \in 1..Len(ReportedKeys) : ReportedKeys[i] = "product_versions")
             <=> Val(release)["product_versions"] # task["product_versions"]
                 /\ task["product_versions"] # None
        /\ write # None =>
             /\ "product_versions" \in DiffKeys(differences)
             /\ "product_versions" \in DOMAIN Val(write).params
        /\ \A w \in WriteIndexes :
             "product_version_ids" \in DOMAIN BodyOf(calls[w])["release"]

C18_Witness ==
    /\ Updated
    /\ key_order = ReverseOrder
    /\ ReportedKeys = << "supports_component_acl", "active", "type", "description",
                         "product" >>
    /\ Len(differences) = 6
    /\ differences[6][1] = "product_versions"
    /\ "product_version_ids" \in DOMAIN LastCall[4]["release"]

\* this real run follows a check-mode run of the same task that returned,
\* with the remote releases untouched in between
AfterPreview ==
    /\ ~check_mode
    /\ prev.runs >= 1
    /\ prev.returned
    /\ prev.check_mode
    /\ prev.task = task
    /\ ~drifted

\* C19 (check mode reads and nothing else): in check mode ensure_release
\* issues the name-filtered read as its only remote call and neither
\* translates nor resolves an id; when the read returns at most one release
\* it returns without error, with changed = true on the create path and on the update
\* path, also when a product, program manager, product version or rule set of
\* the task does not exist on the service, where the real run of the same
\* task on the same remote state ends in an error without a write.
C19_CheckModeReadsOnly ==
    /\ (check_mode /\ InEnsure /\ pc # "read") =>
         /\ OnlyTheRead
         /\ write = None /\ data = None /\ response = None
         /\ pc \in {"absent", "present", "returned", "raised"}
    /\ (check_mode /\ Ended /\ ~ReadRefused /\ Len(found) <= 1) =>
         /\ pc = "returned"
         /\ err = "none"
         /\ result.changed <=> (found = <<>> \/ RealDifferences # <<>>)
         /\ ~Resolves(task) => result.changed
    /\ (AfterPreview /\ Ended /\ ~Resolves(task)) =>
         /\ prev.result.changed
         /\ pc = "raised"
         /\ NoWriteIssued

C19_Witness ==
    /\ AfterPreview
    /\ pc = "raised"
    /\ err = "KeyError"
    /\ found = <<StoredBase>>
    /\ task[RuleSetKey] = Some("Bogus")
    /\ prev.result.changed
    /\ Len(prev.result.stdout_lines) = 1

====
